---- MODULE Spec2Model ----
(***************************************************************************)
(* Model of dm-data-generalizer (src/main.py): the three cell mappers      *)
(* generalize_job_title, generalize_age and generalize_city_to_state, and  *)
(* the pipeline of main() that applies them column by column to a loaded   *)
(* table and writes the result.                                            *)
(*                                                                         *)
(* A Python str is a sequence of one-character strings, so that int(),     *)
(* str() and the f-string of the band label are computed, not assumed.     *)
(* A float is held in tenths (255 is 25.5).                                *)
(***************************************************************************)
EXTENDS Integers, Sequences, FiniteSets, TLC

VARIABLES
    pc,             \* position of main(): read, head, job, age, city, write, returned, exited
    args,           \* the parsed command line (argparse Namespace)
    inputFile,      \* <<>> when input_file does not exist, else <<table>>
    df,             \* <<>> before the load, else <<table>>: the DataFrame
    outFile,        \* <<>> while output_file is not written, else <<table>>
    log,            \* the records emitted through logging, in order
    caught,         \* which except clause of main() ran ("none" when none did)
    exitCode,       \* <<>> while the process runs, else <<status>>
    pass,           \* 1 for a run on the input, 2 for a run on the first run's output
    firstOut,       \* the output of the first run, once a second run started
    fnPc,           \* position of a direct call of a mapper: idle, call, returned
    fnName,         \* the mapper called
    fnArg,          \* its argument
    fnRet           \* its outcome

vars == <<pc, args, inputFile, df, outFile, log, caught,
          exitCode, pass, firstOut, fnPc, fnName, fnArg, fnRet>>

mainVars == <<pc, args, inputFile, df, outFile, log, caught,
              exitCode, pass, firstOut>>

fnVars == <<fnPc, fnName, fnArg, fnRet>>

----------------------------------------------------------------------------
(* Bounds of the model. *)

\* most rows of an input table
MaxRows == 2

\* largest --num_rows tried (the smallest is -1)
MaxNumRows == 2

\* largest integer age passed to a direct call of generalize_age
MaxAgeArg == 123

----------------------------------------------------------------------------
(* Values. *)

Cell(t, i, s) == [t |-> t, i |-> i, s |-> s]

IntCell(n) == Cell("int", n, <<>>)

\* a finite float, in tenths
FloatCell(tenths) == Cell("float", tenths, <<>>)

NaNCell == Cell("nan", 0, <<>>)

\* float("inf") for sign 1, float("-inf") for sign -1
InfCell(sign) == Cell("inf", sign, <<>>)

StrCell(s) == Cell("str", 0, s)

NoneCell == Cell("none", 0, <<>>)

DigitChars == <<"0", "1", "2", "3", "4", "5", "6", "7", "8", "9">>

Whitespace == {" "}

S_Unknown == <<"U","n","k","n","o","w","n">>

S_nan == <<"n","a","n">>

S_inf == <<"i","n","f">>

S_None == <<"N","o","n","e">>

S_Ohio == <<"O","h","i","o">>

S_Texas == <<"T","e","x","a","s">>

S_Nurse == <<"N","u","r","s","e">>

S_Teacher == <<"T","e","a","c","h","e","r">>

S_Educator == <<"E","d","u","c","a","t","o","r">>

S_Astronaut == <<"A","s","t","r","o","n","a","u","t">>

S_SoftwareEngineer ==
    <<"S","o","f","t","w","a","r","e"," ","E","n","g","i","n","e","e","r">>

S_Engineer == <<"E","n","g","i","n","e","e","r">>

S_HealthcareProfessional ==
    <<"H","e","a","l","t","h","c","a","r","e"," ",
      "P","r","o","f","e","s","s","i","o","n","a","l">>

----------------------------------------------------------------------------
(* Python's conversions. *)

RECURSIVE NatToStr(_)
NatToStr(n) ==
    IF n < 10 THEN <<DigitChars[n + 1]>>
    ELSE Append(NatToStr(n \div 10), DigitChars[(n % 10) + 1])

\* str(n) of an int
IntToStr(n) == IF n < 0 THEN <<"-">> \o NatToStr(-n) ELSE NatToStr(n)

\* str(x) of a finite float held in tenths
FloatToStr(tenths) ==
    LET a == IF tenths < 0 THEN -tenths ELSE tenths
        body == NatToStr(a \div 10) \o <<".">> \o <<DigitChars[(a % 10) + 1]>>
    IN  IF tenths < 0 THEN <<"-">> \o body ELSE body

\* Series.astype(str), cell by cell
astype_str(x) ==
    CASE x.t = "str"   -> x.s
      [] x.t = "int"   -> IntToStr(x.i)
      [] x.t = "float" -> FloatToStr(x.i)
      [] x.t = "nan"   -> S_nan
      [] x.t = "inf"   -> IF x.i < 0 THEN <<"-">> \o S_inf ELSE S_inf
      [] x.t = "none"  -> S_None

IsDigit(c) == \E d \in 1..10 : DigitChars[d] = c

DigitVal(c) == (CHOOSE d \in 1..10 : DigitChars[d] = c) - 1

RECURSIVE LStrip(_)
LStrip(s) ==
    IF s # <<>> /\ Head(s) \in Whitespace THEN LStrip(Tail(s)) ELSE s

RECURSIVE RStrip(_)
RStrip(s) ==
    IF s # <<>> /\ s[Len(s)] \in Whitespace
    THEN RStrip(SubSeq(s, 1, Len(s) - 1))
    ELSE s

\* the digits of an int literal: digits, single underscores between them
IsIntBody(b) ==
    /\ b # <<>>
    /\ IsDigit(b[1])
    /\ IsDigit(b[Len(b)])
    /\ \A k \in 1..Len(b) : IsDigit(b[k]) \/ b[k] = "_"
    /\ \A k \in 1..(Len(b) - 1) : ~(b[k] = "_" /\ b[k + 1] = "_")

RECURSIVE IntBodyVal(_, _)
IntBodyVal(b, acc) ==
    IF b = <<>> THEN acc
    ELSE IF Head(b) = "_" THEN IntBodyVal(Tail(b), acc)
    ELSE IntBodyVal(Tail(b), 10 * acc + DigitVal(Head(b)))

Raised(exc) == [exc |-> exc, v |-> 0]

Converted(v) == [exc |-> "none", v |-> v]

\* int(s) of a str
StrToInt(s) ==
    LET t == RStrip(LStrip(s))
        signed == t # <<>> /\ t[1] \in {"+", "-"}
        body == IF signed THEN Tail(t) ELSE t
    IN  IF ~IsIntBody(body) THEN Raised("ValueError")
        ELSE IF signed /\ t[1] = "-" THEN Converted(-IntBodyVal(body, 0))
        ELSE Converted(IntBodyVal(body, 0))

\* int(x): truncation of a float, ValueError for NaN and unparsable text,
\* OverflowError for an infinity, TypeError for None
PyInt(x) ==
    CASE x.t = "int"   -> Converted(x.i)
      [] x.t = "float" -> Converted(IF x.i < 0 THEN -((-x.i) \div 10) ELSE x.i \div 10)
      [] x.t = "nan"   -> Raised("ValueError")
      [] x.t = "inf"   -> Raised("OverflowError")
      [] x.t = "str"   -> StrToInt(x.s)
      [] x.t = "none"  -> Raised("TypeError")

----------------------------------------------------------------------------
(* Logging. *)

\* a record of the log: its level, its message, the name the message carries
\* (a column, an exception) and the cell value it carries
LogRec(level, msg, detail, arg) ==
    [level |-> level, msg |-> msg, detail |-> detail, arg |-> arg]

----------------------------------------------------------------------------
(* The mappers. *)

\* the mapping with one value that is itself a key: "Nurse" goes to "Teacher"
JOB_TITLE_MAPPING_chained ==
       (S_SoftwareEngineer :> S_Engineer)
    @@ (S_Teacher :> S_Educator)
    @@ (S_Nurse :> S_Teacher)

JOB_TITLE_MAPPING ==
       (S_SoftwareEngineer :> S_Engineer)
    @@ (<<"D","a","t","a"," ","S","c","i","e","n","t","i","s","t">>
        :> <<"D","a","t","a"," ","A","n","a","l","y","s","t">>)
    @@ (<<"P","r","o","j","e","c","t"," ","M","a","n","a","g","e","r">>
        :> <<"M","a","n","a","g","e","r">>)
    @@ (<<"A","c","c","o","u","n","t","a","n","t">>
        :> <<"F","i","n","a","n","c","e"," ","P","r","o","f","e","s","s","i","o","n","a","l">>)
    @@ (S_Teacher :> S_Educator)
    @@ (S_Nurse :> S_HealthcareProfessional)
    @@ (<<"D","o","c","t","o","r">> :> S_HealthcareProfessional)
    @@ (<<"L","a","w","y","e","r">>
        :> <<"L","e","g","a","l"," ","P","r","o","f","e","s","s","i","o","n","a","l">>)
    @@ (<<"S","a","l","e","s"," ","R","e","p","r","e","s","e","n","t","a","t","i","v","e">>
        :> <<"S","a","l","e","s"," ","P","r","o","f","e","s","s","i","o","n","a","l">>)
    @@ (<<"M","a","r","k","e","t","i","n","g"," ","M","a","n","a","g","e","r">>
        :> <<"M","a","r","k","e","t","i","n","g"," ","P","r","o","f","e","s","s","i","o","n","a","l">>)

AGE_RANGES ==
    << <<18, 25>>, <<26, 35>>, <<36, 45>>, <<46, 55>>,
       <<56, 65>>, <<66, 75>>, <<76, 85>>, <<86, 95>> >>

\* what a mapper call comes to: the exception it raises ("none" when it
\* returns), the value it returns, and the records it logs
Returns(val) == [exc |-> "none", val |-> val, log |-> <<>>]

ReturnsLogging(val, rec) == [exc |-> "none", val |-> val, log |-> <<rec>>]

Raises(exc) == [exc |-> exc, val |-> NoneCell, log |-> <<>>]

\* the lookup without the fallback: an unmapped title is dropped
generalize_job_title_dropping(job_title) ==
    IF job_title \in DOMAIN JOB_TITLE_MAPPING
    THEN JOB_TITLE_MAPPING[job_title]
    ELSE <<>>

generalize_job_title(job_title) ==
    IF job_title \in DOMAIN JOB_TITLE_MAPPING
    THEN JOB_TITLE_MAPPING[job_title]
    ELSE job_title

\* f"{age_range[0]}-{age_range[1]}"
RangeLabel(age_range) == IntToStr(age_range[1]) \o <<"-">> \o IntToStr(age_range[2])

\* the scan with the upper bound of a range taken as exclusive
RECURSIVE ScanAgeRanges_exclusive(_, _)
ScanAgeRanges_exclusive(age, k) ==
    IF k > Len(AGE_RANGES) THEN S_Unknown
    ELSE IF AGE_RANGES[k][1] <= age /\ age < AGE_RANGES[k][2]
         THEN RangeLabel(AGE_RANGES[k])
         ELSE ScanAgeRanges_exclusive(age, k + 1)

\* the for loop of generalize_age, from the k-th range on
RECURSIVE ScanAgeRanges(_, _)
ScanAgeRanges(age, k) ==
    IF k > Len(AGE_RANGES) THEN S_Unknown
    ELSE IF AGE_RANGES[k][1] <= age /\ age <= AGE_RANGES[k][2]
         THEN RangeLabel(AGE_RANGES[k])
         ELSE ScanAgeRanges(age, k + 1)

\* generalize_age logging the out-of-range ages too
generalize_age_logging(age) ==
    LET c == PyInt(age)
    IN  IF c.exc = "ValueError"
        THEN ReturnsLogging(StrCell(S_Unknown),
                            LogRec("ERROR", "Invalid age value", "", age))
        ELSE IF c.exc # "none" THEN Raises(c.exc)
        ELSE IF ~(0 <= c.v /\ c.v <= 120)
        THEN ReturnsLogging(StrCell(S_Unknown),
                            LogRec("ERROR", "Invalid age value", "", age))
        ELSE Returns(StrCell(ScanAgeRanges(c.v, 1)))

generalize_age(age) ==
    LET c == PyInt(age)
    IN  IF c.exc = "ValueError"
        THEN ReturnsLogging(StrCell(S_Unknown),
                            LogRec("ERROR", "Invalid age value", "", age))
        ELSE IF c.exc # "none" THEN Raises(c.exc)
        ELSE IF ~(0 <= c.v /\ c.v <= 120) THEN Returns(StrCell(S_Unknown))
        ELSE Returns(StrCell(ScanAgeRanges(c.v, 1)))

\* what fake.state() can come to: a state name, or an exception
FakerOutcomes ==
    {[exc |-> FALSE, state |-> S_Ohio], [exc |-> FALSE, state |-> S_Texas],
     [exc |-> TRUE, state |-> <<>>]}

generalize_city_to_state(city, fake_state) ==
    IF fake_state.exc
    THEN ReturnsLogging(NoneCell,
                        LogRec("ERROR", "Failed to generalize city", "", StrCell(city)))
    ELSE Returns(StrCell(fake_state.state))

----------------------------------------------------------------------------
(* Tables. *)

\* an optional argument: <<>> is None, <<v>> is the value v
None == <<>>

Some(v) == <<v>>

\* the truth value Python gives an optional str: None and "" are false
Truthy(opt) == opt # None /\ opt[1] # ""

Table(columns, rows) == [columns |-> columns, rows |-> rows]

ColumnSet(table) == {table.columns[k] : k \in 1..Len(table.columns)}

Min(a, b) == IF a <= b THEN a ELSE b

Max(a, b) == IF a >= b THEN a ELSE b

\* head keeping one row too many
head_offByOne(table, n) ==
    LET len == Len(table.rows)
        k == IF n >= 0 THEN Min(n + 1, len) ELSE Max(0, len + n)
    IN  [table EXCEPT !.rows = SubSeq(table.rows, 1, k)]

\* DataFrame.head(n): the first n rows, and for n < 0 all rows but the last -n
head(table, n) ==
    LET len == Len(table.rows)
        k == IF n >= 0 THEN Min(n, len) ELSE Max(0, len + n)
    IN  [table EXCEPT !.rows = SubSeq(table.rows, 1, k)]

\* the assignment writing the series into every column of the row
SetColumn_everyColumn(table, col, series) ==
    [table EXCEPT !.rows =
        [i \in 1..Len(table.rows) |-> [c \in DOMAIN table.rows[i] |-> series[i]]]]

\* df[col] = series: the column replaced, row by row
SetColumn(table, col, series) ==
    [table EXCEPT !.rows =
        [i \in 1..Len(table.rows) |-> [table.rows[i] EXCEPT ![col] = series[i]]]]

\* Series.apply(f): the outcomes of f cell by cell, in row order
RaisingRows(outcomes) == {i \in 1..Len(outcomes) : outcomes[i].exc # "none"}

FirstRaise(outcomes) ==
    CHOOSE i \in RaisingRows(outcomes) : \A j \in RaisingRows(outcomes) : i <= j

\* the records logged by the calls before the one that raises (by all calls
\* when none raises)
RECURSIVE LoggedUpTo(_, _)
LoggedUpTo(outcomes, k) ==
    IF k = 0 THEN <<>>
    ELSE LoggedUpTo(outcomes, k - 1) \o outcomes[k].log

Values(outcomes) == [i \in 1..Len(outcomes) |-> outcomes[i].val]

----------------------------------------------------------------------------
(* The inputs of a run. *)

ColumnArgs == {None, Some(""), Some("Job Title"), Some("Age")}

NumRowsArgs == {None} \cup {Some(n) : n \in (-1)..MaxNumRows}

Namespaces ==
    [job_title_column : ColumnArgs, age_column : ColumnArgs,
     city_column : ColumnArgs, num_rows : NumRowsArgs]

Headers == {<<"Job Title", "Age">>, <<"Job Title">>, <<"Age">>}

\* sample cells of the columns read_csv infers: int64, float64 (with NaN and
\* inf) and object (text, with NaN for a missing field)
Int64Cells == {IntCell(30), IntCell(150)}

Float64Cells == {NaNCell, InfCell(1)}

ObjectCells == {StrCell(S_Nurse), NaNCell}

\* the sample columns of n rows under a name: one dtype per column, text
\* under "Job Title", numbers under "Age"
LoadedColumns(name, n) ==
    IF name = "Job Title"
    THEN [1..n -> ObjectCells]
    ELSE [1..n -> Int64Cells] \cup [1..n -> Float64Cells]

\* the tables of n rows under a header
TablesOf(h, n) ==
    LET names == {h[k] : k \in 1..Len(h)}
        choices == {cols \in [names -> UNION {LoadedColumns(c, n) : c \in names}] :
                        \A c \in names : cols[c] \in LoadedColumns(c, n)}
    IN  {Table(h, [i \in 1..n |-> [c \in names |-> cols[c][i]]]) : cols \in choices}

LoadedTables == UNION {TablesOf(h, n) : h \in Headers, n \in 0..MaxRows}

----------------------------------------------------------------------------
(* main(). *)

\* the except clauses of main(), in order
Handler(exc) ==
    CASE exc = "FileNotFoundError" -> "FileNotFoundError"
      [] exc = "ValueError"        -> "ValueError"
      [] OTHER                     -> "Exception"

HandlerRecord(exc, detail) ==
    CASE exc = "FileNotFoundError" ->
            LogRec("ERROR", "Input file not found", detail, NoneCell)
      [] exc = "ValueError" ->
            LogRec("ERROR", "ValueError", detail, NoneCell)
      [] OTHER ->
            LogRec("ERROR", "An unexpected error occurred", detail, NoneCell)

\* an exception raised inside the try block: the matching clause logs it and
\* main() returns
Except(exc, detail, logged) ==
    /\ log' = log \o logged \o <<HandlerRecord(exc, detail)>>
    /\ caught' = Handler(exc)
    /\ pc' = "returned"

\* df = pd.read_csv(args.input_file)
ReadCsv ==
    /\ pc = "read"
    /\ IF inputFile = None
       THEN /\ Except("FileNotFoundError", "input_file", <<>>)
            /\ UNCHANGED df
       ELSE /\ df' = inputFile
            /\ pc' = "head"
            /\ UNCHANGED <<log, caught>>
    /\ UNCHANGED <<args, inputFile, outFile, exitCode, pass, firstOut>>
    /\ UNCHANGED fnVars

\* if args.num_rows is not None: df = df.head(args.num_rows)
LimitRows ==
    /\ pc = "head"
    /\ df' = IF args.num_rows = None THEN df ELSE Some(head(df[1], args.num_rows[1]))
    /\ pc' = "job"
    /\ UNCHANGED <<args, inputFile, outFile, log, caught,
                   exitCode, pass, firstOut>>
    /\ UNCHANGED fnVars

\* the three mapped series, cell by cell
JobTitleSeries(table, col) ==
    [i \in 1..Len(table.rows) |->
        Returns(StrCell(generalize_job_title(astype_str(table.rows[i][col]))))]

AgeSeries(table, col) ==
    [i \in 1..Len(table.rows) |-> generalize_age(table.rows[i][col])]

CitySeries(table, col, fake) ==
    [i \in 1..Len(table.rows) |->
        generalize_city_to_state(astype_str(table.rows[i][col]), fake[i])]

\* one column stage of main(): skipped when the option is false, ValueError
\* when the column is missing, else the column replaced by the mapped series,
\* unless a call raises
Stage(opt, missing, outcomes, next) ==
    IF ~Truthy(opt)
    THEN /\ pc' = next
         /\ UNCHANGED <<df, log, caught>>
    ELSE IF opt[1] \notin ColumnSet(df[1])
    THEN /\ Except("ValueError", missing, <<>>)
         /\ UNCHANGED df
    ELSE IF RaisingRows(outcomes) # {}
    THEN /\ Except(outcomes[FirstRaise(outcomes)].exc,
                   outcomes[FirstRaise(outcomes)].exc,
                   LoggedUpTo(outcomes, FirstRaise(outcomes) - 1))
         /\ UNCHANGED df
    ELSE /\ df' = Some(SetColumn(df[1], opt[1], Values(outcomes)))
         /\ log' = log \o LoggedUpTo(outcomes, Len(outcomes))
         /\ pc' = next
         /\ UNCHANGED caught

JobTitleStage ==
    /\ pc = "job"
    /\ Stage(args.job_title_column, "Job title column not found",
             IF Truthy(args.job_title_column) /\ args.job_title_column[1] \in ColumnSet(df[1])
             THEN JobTitleSeries(df[1], args.job_title_column[1]) ELSE <<>>,
             "age")
    /\ UNCHANGED <<args, inputFile, outFile, exitCode, pass, firstOut>>
    /\ UNCHANGED fnVars

AgeStage ==
    /\ pc = "age"
    /\ Stage(args.age_column, "Age column not found",
             IF Truthy(args.age_column) /\ args.age_column[1] \in ColumnSet(df[1])
             THEN AgeSeries(df[1], args.age_column[1]) ELSE <<>>,
             "city")
    /\ UNCHANGED <<args, inputFile, outFile, exitCode, pass, firstOut>>
    /\ UNCHANGED fnVars

CityStage ==
    /\ pc = "city"
    /\ \E fake \in [1..Len(df[1].rows) -> FakerOutcomes] :
          Stage(args.city_column, "City column not found",
                IF Truthy(args.city_column) /\ args.city_column[1] \in ColumnSet(df[1])
                THEN CitySeries(df[1], args.city_column[1], fake) ELSE <<>>,
                "write")
    /\ UNCHANGED <<args, inputFile, outFile, exitCode, pass, firstOut>>
    /\ UNCHANGED fnVars

\* df.to_csv(args.output_file, index=False) and the logging.info after it;
\* to_csv raises OSError when output_file cannot be opened for writing (a
\* directory, no permission), before anything is written
Write ==
    /\ pc = "write"
    /\ \E writable \in BOOLEAN :
          IF writable
          THEN /\ outFile' = df
               /\ log' = log \o <<LogRec("INFO", "Data generalization complete",
                                         "output_file", NoneCell)>>
               /\ pc' = "returned"
               /\ UNCHANGED caught
          ELSE /\ Except("OSError", "OSError", <<>>)
               /\ UNCHANGED outFile
    /\ UNCHANGED <<args, inputFile, df, exitCode, pass, firstOut>>
    /\ UNCHANGED fnVars

\* main() returns and the interpreter exits: nothing sets another status
Exit ==
    /\ pc = "returned"
    /\ exitCode' = Some(0)
    /\ pc' = "exited"
    /\ UNCHANGED <<args, inputFile, df, outFile, log, caught,
                   pass, firstOut>>
    /\ UNCHANGED fnVars

\* the program run again, with the same options, on the file it wrote
Rerun ==
    /\ pc = "exited"
    /\ pass = 1
    /\ outFile # None
    /\ inputFile' = outFile
    /\ firstOut' = outFile
    /\ outFile' = None
    /\ df' = None
    /\ log' = <<>>
    /\ caught' = "none"
    /\ exitCode' = None
    /\ pass' = 2
    /\ pc' = "read"
    /\ UNCHANGED args
    /\ UNCHANGED fnVars

FnIdle ==
    /\ fnPc = "idle"
    /\ fnName = ""
    /\ fnArg = NoneCell
    /\ fnRet = Returns(NoneCell)

Init ==
    /\ pc = "read"
    /\ args \in Namespaces
    /\ inputFile \in {None} \cup {Some(t) : t \in LoadedTables}
    /\ df = None
    /\ outFile = None
    /\ log = <<>>
    /\ caught = "none"
    /\ exitCode = None
    /\ pass = 1
    /\ firstOut = None
    /\ FnIdle

Next ==
    \/ ReadCsv
    \/ LimitRows
    \/ JobTitleStage
    \/ AgeStage
    \/ CityStage
    \/ Write
    \/ Exit

Spec == Init /\ [][Next]_vars

NextTwice == Next \/ Rerun

SpecTwice == Init /\ [][NextTwice]_vars

----------------------------------------------------------------------------
(* Direct calls of the mappers, one call per behaviour. *)

S_150 == <<"1","5","0">>

AgeArgs ==
    {IntCell(n) : n \in (-3)..MaxAgeArg}
    \cup {FloatCell(t) : t \in {-15, -5, 179, 180, 255, 959, 960, 1209, 1210}}
    \cup {NaNCell, InfCell(1), InfCell(-1)}
    \cup {StrCell(s) : s \in {<<"3","0">>, S_150, <<"a","b","c">>, <<>>,
                              <<"2","6","-","3","5">>, <<" ","4","2"," ">>,
                              <<"1","_","8">>, <<"2","5",".","5">>, <<"-","5">>,
                              <<"+","3","0">>, <<"9","6">>, <<"1","7">>,
                              S_Unknown, S_Nurse}}

JobTitleArgs ==
    {StrCell(s) : s \in DOMAIN JOB_TITLE_MAPPING}
    \cup {StrCell(JOB_TITLE_MAPPING[s]) : s \in DOMAIN JOB_TITLE_MAPPING}
    \cup {StrCell(s) : s \in {S_Astronaut, <<>>, S_nan, <<"n","u","r","s","e">>,
                              <<"N","u","r","s","e"," ">>, <<"3","0">>}}

CityArgs == {StrCell(s) : s \in {<<"B","o","s","t","o","n">>, S_nan, <<>>}}

MainIdle ==
    /\ pc = "idle"
    /\ args = [job_title_column |-> None, age_column |-> None,
               city_column |-> None, num_rows |-> None]
    /\ inputFile = None
    /\ df = None
    /\ outFile = None
    /\ log = <<>>
    /\ caught = "none"
    /\ exitCode = None
    /\ pass = 1
    /\ firstOut = None

InitFn ==
    /\ MainIdle
    /\ fnPc = "call"
    /\ fnRet = Returns(NoneCell)
    /\ \/ fnName = "generalize_job_title" /\ fnArg \in JobTitleArgs
       \/ fnName = "generalize_age" /\ fnArg \in AgeArgs
       \/ fnName = "generalize_city_to_state" /\ fnArg \in CityArgs

CallJobTitle ==
    /\ fnPc = "call"
    /\ fnName = "generalize_job_title"
    /\ fnRet' = Returns(StrCell(generalize_job_title(fnArg.s)))
    /\ fnPc' = "returned"
    /\ UNCHANGED <<fnName, fnArg>>
    /\ UNCHANGED mainVars

CallAge ==
    /\ fnPc = "call"
    /\ fnName = "generalize_age"
    /\ fnRet' = generalize_age(fnArg)
    /\ fnPc' = "returned"
    /\ UNCHANGED <<fnName, fnArg>>
    /\ UNCHANGED mainVars

CallCity ==
    /\ fnPc = "call"
    /\ fnName = "generalize_city_to_state"
    /\ \E fake_state \in FakerOutcomes :
          fnRet' = generalize_city_to_state(fnArg.s, fake_state)
    /\ fnPc' = "returned"
    /\ UNCHANGED <<fnName, fnArg>>
    /\ UNCHANGED mainVars

NextFn ==
    \/ CallJobTitle
    \/ CallAge
    \/ CallCity

SpecFn == InitFn /\ [][NextFn]_vars

----------------------------------------------------------------------------
(* The claims. *)

Returned == pc \in {"returned", "exited"}

ColumnOptions == {args.job_title_column, args.age_column, args.city_column}

\* the columns some option names
NamedColumns == {o[1] : o \in {x \in ColumnOptions : Truthy(x)}}

\* the ranges of AGE_RANGES that contain a
RangesHolding(a) ==
    {k \in 1..Len(AGE_RANGES) : AGE_RANGES[k][1] <= a /\ a <= AGE_RANGES[k][2]}

AgeCallReturned == fnPc = "returned" /\ fnName = "generalize_age"

\* C1: for every integer age in [18,95], generalize_age returns the label
\* "low-high" of the one range of AGE_RANGES that contains it: exactly one
\* of the eight ranges does, nothing is raised and nothing is logged.
AgeInBandGetsItsLabel ==
    (AgeCallReturned /\ fnArg.t = "int" /\ 18 <= fnArg.i /\ fnArg.i <= 95) =>
        /\ Len(AGE_RANGES) = 8
        /\ Cardinality(RangesHolding(fnArg.i)) = 1
        /\ fnRet.exc = "none"
        /\ fnRet.log = <<>>
        /\ \A k \in RangesHolding(fnArg.i) :
              fnRet.val = StrCell(IntToStr(AGE_RANGES[k][1]) \o <<"-">>
                                  \o IntToStr(AGE_RANGES[k][2]))
        /\ (fnArg.i = 30 => fnRet.val.s = <<"2","6","-","3","5">>)
        /\ (fnArg.i = 25 => fnRet.val.s = <<"1","8","-","2","5">>)
        /\ (fnArg.i = 95 => fnRet.val.s = <<"8","6","-","9","5">>)

\* generalize_age(25) has returned "18-25": the upper end of the first range
AgeInBandWitness ==
    /\ AgeCallReturned
    /\ fnArg = IntCell(25)
    /\ fnRet.val = StrCell(<<"1","8","-","2","5">>)

\* C2: generalize_age returns "Unknown", and raises nothing, for every input
\* that int() does not convert, for every integer outside [0,120], and for
\* every integer of [0,120] outside the ranges (0..17 and 96..120).
AgeOutsideBandsIsUnknown ==
    (AgeCallReturned /\ (PyInt(fnArg).exc # "none" \/ PyInt(fnArg).v < 18
                                                    \/ PyInt(fnArg).v > 95)) =>
        /\ fnRet.exc = "none"
        /\ fnRet.val = StrCell(S_Unknown)

JobTitleCallReturned == fnPc = "returned" /\ fnName = "generalize_job_title"

\* C3: generalize_job_title raises nothing; it returns the mapped value for a
\* key of JOB_TITLE_MAPPING and the input itself for any other string.
JobTitleMappedOrUnchanged ==
    JobTitleCallReturned =>
        /\ fnRet.exc = "none"
        /\ fnRet.val.t = "str"
        /\ (fnArg.s \in DOMAIN JOB_TITLE_MAPPING
                => fnRet.val.s = JOB_TITLE_MAPPING[fnArg.s])
        /\ (fnArg.s \notin DOMAIN JOB_TITLE_MAPPING => fnRet.val = fnArg)
        /\ (fnArg.s = S_SoftwareEngineer => fnRet.val.s = S_Engineer)
        /\ (fnArg.s = S_Astronaut => fnRet.val.s = S_Astronaut)
        /\ Cardinality(DOMAIN JOB_TITLE_MAPPING) = 10

\* generalize_job_title("Astronaut") has returned "Astronaut"
JobTitleWitness ==
    /\ JobTitleCallReturned
    /\ fnArg = StrCell(S_Astronaut)
    /\ fnRet.val = StrCell(S_Astronaut)

\* C4: in the written output the columns are those of the input, the rows
\* are rows of the input in their order, and every cell of a column that no
\* option names is the cell of the same input row.
UnnamedColumnsUntouched ==
    (pass = 1 /\ outFile # None) =>
        /\ outFile[1].columns = inputFile[1].columns
        /\ Len(outFile[1].rows) <= Len(inputFile[1].rows)
        /\ \A i \in 1..Len(outFile[1].rows) :
              /\ DOMAIN outFile[1].rows[i] = ColumnSet(inputFile[1])
              /\ \A c \in ColumnSet(inputFile[1]) \ NamedColumns :
                    outFile[1].rows[i][c] = inputFile[1].rows[i][c]

\* a two-row table written with its "Job Title" column mapped and its "Age"
\* column named by no option
UnnamedColumnsWitness ==
    /\ outFile # None
    /\ NamedColumns = {"Job Title"}
    /\ inputFile[1].columns = <<"Job Title", "Age">>
    /\ Len(outFile[1].rows) = 2
    /\ inputFile[1].rows[1]["Age"] # inputFile[1].rows[2]["Age"]
    /\ outFile[1].rows[1]["Job Title"] = StrCell(S_HealthcareProfessional)
    /\ outFile[1].rows[2]["Job Title"] = StrCell(S_nan)

PastHead == pc \in {"job", "age", "city", "write", "returned", "exited"} /\ df # None

\* C5, as stated: with --num_rows N the table has exactly min(N, len) rows,
\* the first rows of the input; with no limit all rows are retained.
RowLimitIsMin ==
    (pass = 1 /\ PastHead) =>
        LET len == Len(inputFile[1].rows)
            k == IF args.num_rows = None THEN len ELSE Min(args.num_rows[1], len)
        IN  /\ Len(df[1].rows) = k
            /\ (pc = "job" => df[1].rows = SubSeq(inputFile[1].rows, 1, k))

\* the rows DataFrame.head keeps out of len
Kept(num_rows, len) ==
    IF num_rows = None THEN len
    ELSE IF num_rows[1] >= 0
         THEN (IF num_rows[1] <= len THEN num_rows[1] ELSE len)
         ELSE (IF len + num_rows[1] >= 0 THEN len + num_rows[1] ELSE 0)

\* C5, amended: with --num_rows N >= 0 the table has exactly min(N, len)
\* rows, with N < 0 it has max(0, len + N) rows, with no limit all of them;
\* in each case they are the first rows of the input in their order, and the
\* later stages and the write keep their number.
RowLimitKeepsPrefix ==
    (pass = 1 /\ PastHead) =>
        LET k == Kept(args.num_rows, Len(inputFile[1].rows))
        IN  /\ Len(df[1].rows) = k
            /\ (pc = "job" => df[1].rows = SubSeq(inputFile[1].rows, 1, k))
            /\ (outFile # None => Len(outFile[1].rows) = k)

\* --num_rows 1 on a table of two different rows: the first row alone is kept
RowLimitWitness ==
    /\ pc = "job"
    /\ args.num_rows = Some(1)
    /\ Len(inputFile[1].rows) = 2
    /\ inputFile[1].rows[1] # inputFile[1].rows[2]
    /\ df[1].rows = <<inputFile[1].rows[1]>>

\* some option names a column the loaded table does not have
SomeColumnMissing ==
    /\ inputFile # None
    /\ \E o \in ColumnOptions : Truthy(o) /\ o[1] \notin ColumnSet(inputFile[1])

\* C6: a run whose options name a column absent from the header ends in the
\* column-not-found error (the ValueError clause) with no output written, and
\* no run that ends in an except clause has written the output.
MissingColumnIsColumnNotFound ==
    (pass = 1 /\ Returned) =>
        /\ (SomeColumnMissing => caught = "ValueError" /\ outFile = None)
        /\ (caught # "none" => outFile = None)

\* C7: the exit status is success if and only if the output file was written:
\* a run that ended in an except clause exits with a non-zero status.
ExitStatusIsSuccessIffWritten ==
    (pass = 1 /\ pc = "exited") =>
        /\ (exitCode = Some(0) <=> outFile # None)
        /\ (caught # "none" => exitCode # Some(0))

\* the names the except clauses log for the fatal errors: the input file, a
\* missing column, the output file
FatalDetails ==
    {"input_file", "Job title column not found", "Age column not found",
     "City column not found", "OSError"}

\* C8: no cell value of a selected column makes the run end in an except
\* clause: a run fails only for a missing input file, a missing column or an
\* output file that cannot be written.
CellErrorsNeverAbort ==
    (pass = 1 /\ Returned /\ caught # "none") =>
        log[Len(log)].detail \in FatalDetails

\* C9, as stated: with no city column, the program run on its own output with
\* the same options writes that output again.
RunTwiceIsRunOnce ==
    (pass = 2 /\ outFile # None /\ ~Truthy(args.city_column)) =>
        outFile = firstOut

\* C9, amended: with no city column, no age column and a row limit that is
\* absent or not negative, the program run on its own output with the same
\* options writes that output again.
RunTwiceIsRunOnceWithoutAge ==
    (/\ pass = 2
     /\ outFile # None
     /\ ~Truthy(args.city_column)
     /\ ~Truthy(args.age_column)
     /\ (args.num_rows = None \/ args.num_rows[1] >= 0)) =>
        outFile = firstOut

\* a second run over a first output whose "Job Title" cells were mapped and
\* stringified by the first run, with a row limit in force
RunTwiceWitness ==
    /\ pass = 2
    /\ outFile # None
    /\ NamedColumns = {"Job Title"}
    /\ args.num_rows = Some(2)
    /\ Len(firstOut[1].rows) = 2
    /\ firstOut[1].rows[1]["Job Title"] = StrCell(S_HealthcareProfessional)
    /\ firstOut[1].rows[2]["Job Title"] = StrCell(S_nan)
    /\ outFile = firstOut

\* the table the age stage is applied to: the input after the row limit and
\* the job title stage
BeforeAge ==
    LET t == IF args.num_rows = None THEN inputFile[1]
             ELSE head(inputFile[1], args.num_rows[1])
        j == args.job_title_column
    IN  IF Truthy(j) /\ j[1] \in ColumnSet(t)
        THEN SetColumn(t, j[1], Values(JobTitleSeries(t, j[1])))
        ELSE t

\* the age stage has just replaced its column
AgeStageDone ==
    /\ pass = 1
    /\ pc = "city"
    /\ Truthy(args.age_column)
    /\ args.age_column[1] \in ColumnSet(df[1])

\* int() converts the cell to an integer outside [0,120]
OutOfRangeAge(x) == PyInt(x).exc = "none" /\ (PyInt(x).v < 0 \/ PyInt(x).v > 120)

LoggedInvalidAge(x) ==
    \E k \in 1..Len(log) : log[k].msg = "Invalid age value" /\ log[k].arg = x

\* C10, as stated: an age cell that parses as an integer outside [0,120]
\* becomes "Unknown" and a diagnostic is logged for it.
OutOfRangeAgeIsLogged ==
    AgeStageDone =>
        \A i \in 1..Len(df[1].rows) :
            LET x == BeforeAge.rows[i][args.age_column[1]]
            IN  OutOfRangeAge(x) =>
                    /\ df[1].rows[i][args.age_column[1]] = StrCell(S_Unknown)
                    /\ LoggedInvalidAge(x)

\* C10, amended: an age cell that parses as an integer outside [0,120]
\* becomes "Unknown" and no diagnostic is logged for it: generalize_age logs
\* only the cells int() rejects with a ValueError.
OutOfRangeAgeIsUnknownUnlogged ==
    AgeStageDone =>
        \A i \in 1..Len(df[1].rows) :
            LET x == BeforeAge.rows[i][args.age_column[1]]
            IN  OutOfRangeAge(x) =>
                    /\ df[1].rows[i][args.age_column[1]] = StrCell(S_Unknown)
                    /\ ~LoggedInvalidAge(x)

\* the age stage has turned the text "150" into "Unknown"
OutOfRangeAgeWitness ==
    /\ AgeStageDone
    /\ Len(df[1].rows) = 2
    /\ BeforeAge.rows[1][args.age_column[1]] = StrCell(S_150)
    /\ df[1].rows[1][args.age_column[1]] = StrCell(S_Unknown)
    /\ log = <<>>

====
